---- MODULE Spec2Model ----
\* A model of the SAPI client of sapi/src/lib.rs: the typed records and their
\* serde decoders, the thirteen public operations, and the three private
\* request helpers.  Callers share one client value; every call is one
\* request handed to the transport followed by the transport's answer.
EXTENDS Integers, Sequences, FiniteSets, TLC

VARIABLES
    sapi_base_url,    \* SAPI.sapi_base_url
    request_timeout,  \* SAPI.request_timeout
    client,           \* SAPI.client: the transport handle built by new
    new_args,         \* the arguments new was called with
    pc,               \* per caller: "idle", "sent" (blocked in send) or "returned"
    call,             \* per caller: the public operation running and its arguments
    req,              \* per caller: the request handed to the transport
    nsent,            \* per caller: requests handed to the transport by the call
    resp,             \* per caller: what send() gave back
    decoded,          \* per caller: whether Response::json ran in the call
    result,           \* per caller: the value the call returned
    target,           \* decoder harness: the record type asked for
    payload,          \* decoder harness: the body handed to the decoder
    output            \* decoder harness: what the decoder returned

clientVars == <<sapi_base_url, request_timeout, client, new_args>>
callVars == <<pc, call, req, nsent, resp, decoded, result>>
decodeVars == <<target, payload, output>>
vars == <<sapi_base_url, request_timeout, client, new_args, pc, call, req,
          nsent, resp, decoded, result, target, payload, output>>

\* ---------------------------------------------------------------- bounds

NumCallers == 2
MaxManifests == 1

Callers == 1..NumCallers

\* ------------------------------------------------------- serde_json::Value

JNull == [t |-> "null"]
JStr(s) == [t |-> "str", s |-> s]
JBool(b) == [t |-> "bool", b |-> b]
JObj(f) == [t |-> "obj", o |-> f]
JArr(q) == [t |-> "arr", a |-> q]
\* a body that is not JSON text at all
Malformed == [t |-> "malformed"]

\* Result<T, serde_json::Error> and Option<T>
Ok(v) == [ok |-> TRUE, v |-> v]
DecodeErr == [ok |-> FALSE]
None == [some |-> FALSE]
Some(v) == [some |-> TRUE, v |-> v]

\* ---------------------------------------------- field decoders (serde derive)

de_String(v) == IF v.t = "str" THEN Ok(v.s) ELSE DecodeErr
de_bool(v) == IF v.t = "bool" THEN Ok(v.b) ELSE DecodeErr

\* `pub f: String`, no attribute: a missing field is an error
field_String(o, k) == IF k \in DOMAIN o THEN de_String(o[k]) ELSE DecodeErr

\* `#[serde(default)] pub f: String`
field_String_default(o, k) == IF k \in DOMAIN o THEN de_String(o[k]) ELSE Ok("")

\* `#[serde(default)] pub f: bool`
field_bool_default(o, k) == IF k \in DOMAIN o THEN de_bool(o[k]) ELSE Ok(FALSE)

\* `pub f: Option<Value>`: a missing field and a null are both None
\* fault: the field declared `Value`-like, so that leaving it out is an error
field_Option_Value_required(o, k) ==
    IF k \in DOMAIN o
    THEN (IF o[k].t = "null" THEN Ok(None) ELSE Ok(Some(o[k])))
    ELSE DecodeErr
field_Option_Value(o, k) ==
    IF k \in DOMAIN o /\ o[k].t # "null" THEN Ok(Some(o[k])) ELSE Ok(None)

\* `pub f: Value`, no attribute: any value, but a missing field is an error
field_Value(o, k) == IF k \in DOMAIN o THEN Ok(o[k]) ELSE DecodeErr

AllOk(rs) == \A i \in DOMAIN rs : rs[i].ok

\* ------------------------------------------------------------ the records

\* fault: uuid given #[serde(default)] like the other fields
de_SapiManifests_uuid_default(v) ==
    IF v.t # "obj" THEN DecodeErr
    ELSE LET o == v.o
             uuid == field_String_default(o, "uuid")
             name == field_String_default(o, "name")
             path == field_String_default(o, "path")
             template == field_String_default(o, "template")
             version == field_String_default(o, "version")
             master == field_bool_default(o, "master")
             post_cmd == field_String_default(o, "post_cmd")
         IN IF AllOk(<<uuid, name, path, template, version, master, post_cmd>>)
            THEN Ok([uuid |-> uuid.v, name |-> name.v, path |-> path.v,
                     template |-> template.v, version |-> version.v,
                     master |-> master.v, post_cmd |-> post_cmd.v])
            ELSE DecodeErr
de_SapiManifests(v) ==
    IF v.t # "obj" THEN DecodeErr
    ELSE LET o == v.o
             uuid == field_String(o, "uuid")
             name == field_String_default(o, "name")
             path == field_String_default(o, "path")
             template == field_String_default(o, "template")
             version == field_String_default(o, "version")
             master == field_bool_default(o, "master")
             post_cmd == field_String_default(o, "post_cmd")
         IN IF AllOk(<<uuid, name, path, template, version, master, post_cmd>>)
            THEN Ok([uuid |-> uuid.v, name |-> name.v, path |-> path.v,
                     template |-> template.v, version |-> version.v,
                     master |-> master.v, post_cmd |-> post_cmd.v])
            ELSE DecodeErr

de_ServiceData(v) ==
    IF v.t # "obj" THEN DecodeErr
    ELSE LET o == v.o
             uuid == field_String(o, "uuid")
             name == field_String(o, "name")
             application_uuid == field_String(o, "application_uuid")
             params == field_Option_Value(o, "params")
             metadata == field_Option_Value(o, "metadata")
             master == field_bool_default(o, "master")
         IN IF AllOk(<<uuid, name, application_uuid, params, metadata, master>>)
            THEN Ok([uuid |-> uuid.v, name |-> name.v,
                     application_uuid |-> application_uuid.v,
                     params |-> params.v, metadata |-> metadata.v,
                     master |-> master.v])
            ELSE DecodeErr

de_InstanceData(v) ==
    IF v.t # "obj" THEN DecodeErr
    ELSE LET o == v.o
             uuid == field_String(o, "uuid")
             service_uuid == field_String(o, "service_uuid")
             params == field_Option_Value(o, "params")
             metadata == field_Option_Value(o, "metadata")
         IN IF AllOk(<<uuid, service_uuid, params, metadata>>)
            THEN Ok([uuid |-> uuid.v, service_uuid |-> service_uuid.v,
                     params |-> params.v, metadata |-> metadata.v])
            ELSE DecodeErr

de_ApplicationData(v) ==
    IF v.t # "obj" THEN DecodeErr
    ELSE LET o == v.o
             uuid == field_String(o, "uuid")
             name == field_String(o, "name")
             owner_uuid == field_String(o, "owner_uuid")
             params == field_Option_Value(o, "params")
             metadata == field_Option_Value(o, "metadata")
             manifests == field_Option_Value(o, "manifests")
         IN IF AllOk(<<uuid, name, owner_uuid, params, metadata, manifests>>)
            THEN Ok([uuid |-> uuid.v, name |-> name.v, owner_uuid |-> owner_uuid.v,
                     params |-> params.v, metadata |-> metadata.v,
                     manifests |-> manifests.v])
            ELSE DecodeErr

\* the element decoder a Vec<T> uses, by the name of T
de_element(type, v) ==
    CASE type = "SapiManifests" -> de_SapiManifests(v)
      [] type = "ServiceData" -> de_ServiceData(v)
      [] type = "InstanceData" -> de_InstanceData(v)
      [] type = "ApplicationData" -> de_ApplicationData(v)

\* Vec<T>: a JSON array whose every element decodes as T
de_Vec(type, v) ==
    IF v.t # "arr" THEN DecodeErr
    ELSE LET rs == [i \in DOMAIN v.a |-> de_element(type, v.a[i])]
         IN IF AllOk(rs) THEN Ok([i \in DOMAIN rs |-> rs[i].v]) ELSE DecodeErr

de_ZoneConfig(v) ==
    IF v.t # "obj" THEN DecodeErr
    ELSE LET o == v.o
             manifests == IF "manifests" \in DOMAIN o
                          THEN de_Vec("SapiManifests", o["manifests"])
                          ELSE DecodeErr
             metadata == field_Value(o, "metadata")
         IN IF AllOk(<<manifests, metadata>>)
            THEN Ok([manifests |-> manifests.v, metadata |-> metadata.v])
            ELSE DecodeErr

Types == {"ZoneConfig", "SapiManifests", "ServiceData", "InstanceData",
          "ApplicationData", "Services", "Instances", "Applications"}

\* serde_json::from_*::<T>: the decoder of the type the caller names
from_json(type, v) ==
    CASE type = "ZoneConfig" -> de_ZoneConfig(v)
      [] type = "Services" -> de_Vec("ServiceData", v)
      [] type = "Instances" -> de_Vec("InstanceData", v)
      [] type = "Applications" -> de_Vec("ApplicationData", v)
      [] OTHER -> de_element(type, v)

\* --------------------------------------------------- the decoder's inputs

\* a well-typed value for every field the server may send, and one field
\* ("type", the SAPI v2.0 field) that no record declares
ManifestFields ==
    [uuid |-> JStr("m1"), name |-> JStr("config.json"), path |-> JStr("/opt/etc"),
     template |-> JStr("{{x}}"), version |-> JStr("1.0.0"), master |-> JBool(TRUE),
     post_cmd |-> JStr("svcadm restart x"), type |-> JStr("vm")]
ServiceFields ==
    [uuid |-> JStr("s1"), name |-> JStr("cheddar"), application_uuid |-> JStr("a1"),
     params |-> JObj([ram |-> JStr("256")]), metadata |-> JObj([K |-> JStr("v")]),
     master |-> JBool(TRUE), type |-> JStr("vm")]
InstanceFields ==
    [uuid |-> JStr("i1"), service_uuid |-> JStr("s1"),
     params |-> JObj([ram |-> JStr("256")]), metadata |-> JObj([K |-> JStr("v")]),
     type |-> JStr("vm")]
ApplicationFields ==
    [uuid |-> JStr("a1"), name |-> JStr("sdc"), owner_uuid |-> JStr("o1"),
     params |-> JObj([ram |-> JStr("256")]), metadata |-> JObj([K |-> JStr("v")]),
     manifests |-> JObj([m |-> JStr("m1")]), type |-> JStr("vm")]

FieldsOf(type) ==
    CASE type = "SapiManifests" -> ManifestFields
      [] type = "ServiceData" -> ServiceFields
      [] type = "InstanceData" -> InstanceFields
      [] type = "ApplicationData" -> ApplicationFields

\* every object that carries a subset of the fields, each well typed
Objects(fields) == { JObj([k \in S |-> fields[k]]) : S \in SUBSET DOMAIN fields }
\* the full object with one field sent as null
Nulled(fields) ==
    { JObj([k \in DOMAIN fields |-> IF k = n THEN JNull ELSE fields[k]]) :
        n \in DOMAIN fields }
NonObjects == {Malformed, JNull, JStr("x")}

SeqsUpTo(S, n) == UNION { [1..k -> S] : k \in 0..n }

ZoneMetadata == JObj([SERVICE_NAME |-> JStr("svc.example.com")])
ZoneManifests ==
    { JObj([k \in S |-> ManifestFields[k]]) :
        S \in SUBSET (DOMAIN ManifestFields \ {"type"}) }
ZoneConfigs ==
    { JObj([k \in S |-> IF k = "manifests" THEN JArr(ms)
                        ELSE IF k = "metadata" THEN ZoneMetadata
                        ELSE JStr("vm")]) :
        S \in SUBSET {"manifests", "metadata", "type"},
        ms \in SeqsUpTo(ZoneManifests, MaxManifests) }

RecordTypes == {"ZoneConfig", "SapiManifests", "ServiceData", "InstanceData",
                "ApplicationData"}

Payloads(type) ==
    IF type = "ZoneConfig" THEN ZoneConfigs \cup NonObjects
    ELSE Objects(FieldsOf(type)) \cup Nulled(FieldsOf(type)) \cup NonObjects

Pending == [pending |-> TRUE]

\* ------------------------------------------------------------- the client

\* the configurations new is called with (the second has a trailing slash)
Configs == { <<"http://10.77.77.136", 60>>, <<"http://sapi.example.com/", 30>> }

Uuids == {"e68592d3-5677"}
Names == {"ched dar&x=1"}
UpdateBodies == {JObj([name |-> JStr("brie"), master |-> JNull])}

NoBody == [some |-> FALSE]
NoRequest == [method |-> "none"]
NoResponse == [kind |-> "none"]
NoResult == [kind |-> "none"]
NoCall == [op |-> "none", args |-> <<>>]

\* what send() gives back: Err(reqwest::Error) or Ok(Response)
TransportFailure == [kind |-> "err"]
Response(status, body) == [kind |-> "response", status |-> status, body |-> body]

\* what a public operation returns
Err(e) == [kind |-> "err", error |-> e]
OkRecord(v) == [kind |-> "record", value |-> v]
OkResponse(r) == [kind |-> "response", response |-> r]

\* StatusCode::is_success
is_success(status) == status >= 200 /\ status < 300

Statuses == {200, 404}
ErrorBody ==
    JObj([code |-> JStr("ResourceNotFound"), message |-> JStr("no such object")])

ReadOps == {"get_zone_config", "get_instance", "list_instances",
            "list_service_instances", "list_services", "get_service",
            "get_service_by_name", "get_application_by_name",
            "list_applications", "get_application"}
MutatingOps == {"create_service", "update_service", "delete_service"}

\* the type each read operation annotates its `let` with
ResultType(op) ==
    CASE op = "get_zone_config" -> "ZoneConfig"
      [] op = "get_instance" -> "InstanceData"
      [] op \in {"list_instances", "list_service_instances"} -> "Instances"
      [] op \in {"list_services", "get_service_by_name"} -> "Services"
      [] op = "get_service" -> "ServiceData"
      [] op \in {"get_application_by_name", "list_applications"} -> "Applications"
      [] op = "get_application" -> "ApplicationData"

\* a body the server sends for a record: its required fields only
Minimal(type) ==
    CASE type = "ZoneConfig" ->
             JObj([manifests |-> JArr(<<JObj([uuid |-> JStr("m1")])>>),
                   metadata |-> ZoneMetadata])
      [] type = "InstanceData" ->
             JObj([uuid |-> JStr("i1"), service_uuid |-> JStr("s1")])
      [] type = "ServiceData" ->
             JObj([uuid |-> JStr("s1"), name |-> JStr("cheddar"),
                   application_uuid |-> JStr("a1")])
      [] type = "ApplicationData" ->
             JObj([uuid |-> JStr("a1"), name |-> JStr("sdc"),
                   owner_uuid |-> JStr("o1")])

\* a body the server sends for a read: the record, or a list of one
GoodBody(type) ==
    CASE type = "Instances" -> JArr(<<Minimal("InstanceData")>>)
      [] type = "Services" -> JArr(<<Minimal("ServiceData")>>)
      [] type = "Applications" -> JArr(<<Minimal("ApplicationData")>>)
      [] OTHER -> Minimal(type)

\* the bodies the server answers an operation with
Bodies(op) ==
    IF op \in ReadOps THEN {GoodBody(ResultType(op)), ErrorBody}
    ELSE {Minimal("ServiceData"), ErrorBody}

\* SAPI::new
new(url, timeout) ==
    /\ sapi_base_url = url
    /\ request_timeout = timeout
    /\ client = [timeout |-> timeout]
    /\ new_args = [sapi_base_url |-> url, request_timeout |-> timeout]

\* Headers::set: one value per header name
HeadersNew == <<>>
HeadersSet(h, name, value) ==
    [k \in DOMAIN h \cup {name} |-> IF k = name THEN value ELSE h[k]]

\* SAPI::default_headers
\* fault: the Accept header forgotten
default_headers_no_accept ==
    HeadersSet(HeadersNew, "Content-Type", "application/json")
default_headers ==
    HeadersSet(HeadersSet(HeadersNew, "Content-Type", "application/json"),
               "Accept", "application/json")

\* RequestBuilder::send, up to the point where the caller blocks on the
\* transport: the request of call `op(args)` of caller c goes out
\* fault: the transport guarded by a lock, one request in flight at a time
send_locked(c, op, args, request) ==
    /\ pc[c] = "idle"
    /\ \A d \in Callers : pc[d] # "sent"
    /\ pc' = [pc EXCEPT ![c] = "sent"]
    /\ call' = [call EXCEPT ![c] = [op |-> op, args |-> args]]
    /\ req' = [req EXCEPT ![c] = request]
    /\ nsent' = [nsent EXCEPT ![c] = 1]
    /\ resp' = [resp EXCEPT ![c] = NoResponse]
    /\ decoded' = [decoded EXCEPT ![c] = FALSE]
    /\ result' = [result EXCEPT ![c] = NoResult]
    /\ UNCHANGED <<clientVars, decodeVars>>
send(c, op, args, request) ==
    /\ pc[c] = "idle"
    /\ pc' = [pc EXCEPT ![c] = "sent"]
    /\ call' = [call EXCEPT ![c] = [op |-> op, args |-> args]]
    /\ req' = [req EXCEPT ![c] = request]
    /\ nsent' = [nsent EXCEPT ![c] = 1]
    /\ resp' = [resp EXCEPT ![c] = NoResponse]
    /\ decoded' = [decoded EXCEPT ![c] = FALSE]
    /\ result' = [result EXCEPT ![c] = NoResult]
    /\ UNCHANGED <<clientVars, decodeVars>>

\* SAPI::get, SAPI::post, SAPI::delete: the request each builds
get(c, op, args, url) ==
    send(c, op, args, [method |-> "GET", url |-> url,
                       headers |-> default_headers, body |-> NoBody])
post(c, op, args, url, body) ==
    send(c, op, args, [method |-> "POST", url |-> url,
                       headers |-> default_headers, body |-> Some(body)])
delete(c, op, args, url) ==
    send(c, op, args, [method |-> "DELETE", url |-> url,
                       headers |-> default_headers, body |-> NoBody])

\* ------------------------------------------------- the public operations

get_zone_config(c, uuid) ==
    get(c, "get_zone_config", <<uuid>>, sapi_base_url \o "/configs/" \o uuid)

get_instance(c, inst_uuid) ==
    get(c, "get_instance", <<inst_uuid>>,
        sapi_base_url \o "/instances/" \o inst_uuid)

list_instances(c) ==
    get(c, "list_instances", <<>>, sapi_base_url \o "/instances")

list_service_instances(c, svc_uuid) ==
    get(c, "list_service_instances", <<svc_uuid>>,
        sapi_base_url \o "/instances?service_uuid=" \o svc_uuid)

list_services(c) ==
    get(c, "list_services", <<>>, sapi_base_url \o "/services")

get_service(c, uuid) ==
    get(c, "get_service", <<uuid>>, sapi_base_url \o "/services/" \o uuid)

\* fault: the name put in the path instead of the query
get_service_by_name_as_path(c, name) ==
    get(c, "get_service_by_name", <<name>>,
        sapi_base_url \o "/services/" \o name)
get_service_by_name(c, name) ==
    get(c, "get_service_by_name", <<name>>,
        sapi_base_url \o "/services?name=" \o name)

create_service(c, name, application_uuid) ==
    post(c, "create_service", <<name, application_uuid>>,
         sapi_base_url \o "/services",
         JObj([name |-> JStr(name), application_uuid |-> JStr(application_uuid)]))

update_service(c, service_uuid, body) ==
    post(c, "update_service", <<service_uuid, body>>,
         sapi_base_url \o "/services/" \o service_uuid, body)

delete_service(c, service_uuid) ==
    delete(c, "delete_service", <<service_uuid>>,
           sapi_base_url \o "/services/" \o service_uuid)

get_application_by_name(c, name) ==
    get(c, "get_application_by_name", <<name>>,
        sapi_base_url \o "/applications?name=" \o name)

list_applications(c) ==
    get(c, "list_applications", <<>>, sapi_base_url \o "/applications")

get_application(c, uuid) ==
    get(c, "get_application", <<uuid>>,
        sapi_base_url \o "/applications/" \o uuid)

\* ------------------------------------------------ the transport's answer

\* Response::json::<T>: decodes the body, whatever the status
json(type, response) == from_json(type, response.body)

\* `let x: T = self.get(&url)?.json()?; Ok(x)` once send() gave Ok(response)
\* fault: an empty list returned when the body does not decode
read_result_fallback(type, response) ==
    LET d == json(type, response)
    IN IF d.ok THEN OkRecord(d.v) ELSE OkRecord(<<>>)
\* fault: the status checked (error_for_status) before decoding
read_result_checked(type, response) ==
    IF ~is_success(response.status) THEN Err("status")
    ELSE LET d == json(type, response)
         IN IF d.ok THEN OkRecord(d.v) ELSE Err("decode")
read_result(type, response) ==
    LET d == json(type, response)
    IN IF d.ok THEN OkRecord(d.v) ELSE Err("decode")

\* `let resp = ... .send()?; Ok(resp)` once send() gave Ok(response)
\* fault: a non-2xx status turned into an error
raw_result_checked(response) ==
    IF is_success(response.status) THEN OkResponse(response) ELSE Err("status")
raw_result(response) == OkResponse(response)

\* send() gives Err: get's `Err(e) => Err(Box::new(e))`, post's and delete's `?`
\* fault: one retry after a transport failure
send_Err_retry(c) ==
    /\ pc[c] = "sent"
    /\ IF nsent[c] < 2
       THEN /\ nsent' = [nsent EXCEPT ![c] = nsent[c] + 1]
            /\ UNCHANGED <<pc, resp, result>>
       ELSE /\ pc' = [pc EXCEPT ![c] = "returned"]
            /\ resp' = [resp EXCEPT ![c] = TransportFailure]
            /\ result' = [result EXCEPT ![c] = Err("transport")]
            /\ UNCHANGED nsent
    /\ UNCHANGED <<call, req, decoded, clientVars, decodeVars>>
send_Err(c) ==
    /\ pc[c] = "sent"
    /\ pc' = [pc EXCEPT ![c] = "returned"]
    /\ resp' = [resp EXCEPT ![c] = TransportFailure]
    /\ result' = [result EXCEPT ![c] = Err("transport")]
    /\ UNCHANGED <<call, req, nsent, decoded, clientVars, decodeVars>>

\* send() gives Ok(response) to a read operation, which decodes and returns
\* fault: the last URL stored in the client
read_returns_storing(c) ==
    /\ pc[c] = "sent"
    /\ call[c].op \in ReadOps
    /\ \E status \in Statuses, body \in Bodies(call[c].op) :
         LET response == Response(status, body) IN
           /\ resp' = [resp EXCEPT ![c] = response]
           /\ result' = [result EXCEPT ![c] =
                           read_result(ResultType(call[c].op), response)]
    /\ decoded' = [decoded EXCEPT ![c] = TRUE]
    /\ pc' = [pc EXCEPT ![c] = "returned"]
    /\ sapi_base_url' = req[c].url
    /\ UNCHANGED <<call, req, nsent, request_timeout, client, new_args, decodeVars>>
read_returns(c) ==
    /\ pc[c] = "sent"
    /\ call[c].op \in ReadOps
    /\ \E status \in Statuses, body \in Bodies(call[c].op) :
         LET response == Response(status, body) IN
           /\ resp' = [resp EXCEPT ![c] = response]
           /\ result' = [result EXCEPT ![c] =
                           read_result(ResultType(call[c].op), response)]
    /\ decoded' = [decoded EXCEPT ![c] = TRUE]
    /\ pc' = [pc EXCEPT ![c] = "returned"]
    /\ UNCHANGED <<call, req, nsent, clientVars, decodeVars>>

\* send() gives Ok(response) to a mutating operation, which returns it as is
raw_returns(c) ==
    /\ pc[c] = "sent"
    /\ call[c].op \in MutatingOps
    /\ \E status \in Statuses, body \in Bodies(call[c].op) :
         LET response == Response(status, body) IN
           /\ resp' = [resp EXCEPT ![c] = response]
           /\ result' = [result EXCEPT ![c] = raw_result(response)]
    /\ pc' = [pc EXCEPT ![c] = "returned"]
    /\ UNCHANGED <<call, req, nsent, decoded, clientVars, decodeVars>>

\* the caller matches on the returned value and lets it go; the client
\* holds nothing of the call
match_result(c) ==
    /\ pc[c] = "returned"
    /\ pc' = [pc EXCEPT ![c] = "idle"]
    /\ call' = [call EXCEPT ![c] = NoCall]
    /\ req' = [req EXCEPT ![c] = NoRequest]
    /\ nsent' = [nsent EXCEPT ![c] = 0]
    /\ resp' = [resp EXCEPT ![c] = NoResponse]
    /\ decoded' = [decoded EXCEPT ![c] = FALSE]
    /\ result' = [result EXCEPT ![c] = NoResult]
    /\ UNCHANGED <<clientVars, decodeVars>>

\* --------------------------------------------------------- specifications

InitCalls ==
    /\ pc = [c \in Callers |-> "idle"]
    /\ call = [c \in Callers |-> NoCall]
    /\ req = [c \in Callers |-> NoRequest]
    /\ nsent = [c \in Callers |-> 0]
    /\ resp = [c \in Callers |-> NoResponse]
    /\ decoded = [c \in Callers |-> FALSE]
    /\ result = [c \in Callers |-> NoResult]

Init ==
    /\ \E cfg \in Configs : new(cfg[1], cfg[2])
    /\ InitCalls
    /\ target = "none"
    /\ payload = JNull
    /\ output = Pending

Next ==
    \E c \in Callers :
        \/ \E uuid \in Uuids : get_zone_config(c, uuid)
        \/ \E uuid \in Uuids : get_instance(c, uuid)
        \/ list_instances(c)
        \/ \E uuid \in Uuids : list_service_instances(c, uuid)
        \/ list_services(c)
        \/ \E uuid \in Uuids : get_service(c, uuid)
        \/ \E name \in Names : get_service_by_name(c, name)
        \/ \E name \in Names, uuid \in Uuids : create_service(c, name, uuid)
        \/ \E uuid \in Uuids, body \in UpdateBodies : update_service(c, uuid, body)
        \/ \E uuid \in Uuids : delete_service(c, uuid)
        \/ \E name \in Names : get_application_by_name(c, name)
        \/ list_applications(c)
        \/ \E uuid \in Uuids : get_application(c, uuid)
        \/ send_Err(c)
        \/ read_returns(c)
        \/ raw_returns(c)
        \/ match_result(c)

Spec == Init /\ [][Next]_vars

\* the decoders alone: a payload is drawn, then decoded as the target type
InitDecode ==
    /\ new("http://10.77.77.136", 60)
    /\ InitCalls
    /\ target \in RecordTypes
    /\ payload \in Payloads(target)
    /\ output = Pending

deserialize ==
    /\ output = Pending
    /\ output' = from_json(target, payload)
    /\ UNCHANGED <<target, payload, clientVars, callVars>>

NextDecode == deserialize

SpecDecode == InitDecode /\ [][NextDecode]_vars

\* ============================================================== the claims

InCall(c) == pc[c] \in {"sent", "returned"}
Returned(c) == pc[c] = "returned"
Answered(c) == pc[c] = "returned" /\ resp[c].kind = "response"

\* the endpoint table of the specification: method and URL per operation
Endpoint(op, args, base) ==
    CASE op = "get_zone_config" ->
             [method |-> "GET", url |-> base \o "/configs/" \o args[1]]
      [] op = "get_instance" ->
             [method |-> "GET", url |-> base \o "/instances/" \o args[1]]
      [] op = "list_instances" ->
             [method |-> "GET", url |-> base \o "/instances"]
      [] op = "list_service_instances" ->
             [method |-> "GET", url |-> base \o "/instances?service_uuid=" \o args[1]]
      [] op = "list_services" ->
             [method |-> "GET", url |-> base \o "/services"]
      [] op = "get_service" ->
             [method |-> "GET", url |-> base \o "/services/" \o args[1]]
      [] op = "get_service_by_name" ->
             [method |-> "GET", url |-> base \o "/services?name=" \o args[1]]
      [] op = "create_service" ->
             [method |-> "POST", url |-> base \o "/services"]
      [] op = "update_service" ->
             [method |-> "POST", url |-> base \o "/services/" \o args[1]]
      [] op = "delete_service" ->
             [method |-> "DELETE", url |-> base \o "/services/" \o args[1]]
      [] op = "get_application_by_name" ->
             [method |-> "GET", url |-> base \o "/applications?name=" \o args[1]]
      [] op = "list_applications" ->
             [method |-> "GET", url |-> base \o "/applications"]
      [] op = "get_application" ->
             [method |-> "GET", url |-> base \o "/applications/" \o args[1]]

\* C1: the request of every call of every public operation has the method
\* and the URL of the endpoint table: the base URL given to new, then the
\* resource path, then the argument as it was passed, nothing normalised
\* and nothing escaped.
C1_EndpointTable ==
    \A c \in Callers :
        InCall(c) =>
            LET e == Endpoint(call[c].op, call[c].args, new_args.sapi_base_url)
            IN req[c].method = e.method /\ req[c].url = e.url

\* a by-name lookup in flight on the base URL with a trailing slash: the
\* slash is doubled and the name's space, '&' and '=' are sent as they are
C1_Witness ==
    \E c \in Callers :
        /\ pc[c] = "sent"
        /\ call[c].op = "get_service_by_name"
        /\ req[c].method = "GET"
        /\ req[c].url = "http://sapi.example.com//services?name=ched dar&x=1"

\* C2: a read operation whose transport failed returns the transport error
\* and never ran the decoder; one whose transport succeeded ran the decoder
\* whatever the status, so an error body under 200 or 404 gives a decode
\* error and no other kind of error exists.
C2_ReadErrorKinds ==
    \A c \in Callers :
        (Returned(c) /\ call[c].op \in ReadOps) =>
            /\ (resp[c].kind = "err" =>
                    result[c] = [kind |-> "err", error |-> "transport"] /\ ~decoded[c])
            /\ (resp[c].kind = "response" =>
                    /\ decoded[c]
                    /\ result[c].kind = "err" => result[c].error = "decode"
                    /\ resp[c].body = ErrorBody =>
                           result[c] = [kind |-> "err", error |-> "decode"])

\* a read answered 404 with the server's error body came back a decode error
C2_Witness ==
    \E c \in Callers :
        /\ Answered(c)
        /\ call[c].op = "get_service"
        /\ resp[c].status = 404
        /\ resp[c].body = ErrorBody
        /\ decoded[c]
        /\ result[c] = [kind |-> "err", error |-> "decode"]

\* C3: a call hands exactly one request to the transport, whatever its
\* outcome, and a call whose send failed returns without any further step
\* (no decode, no second request).
C3_OneRequestPerCall ==
    \A c \in Callers :
        /\ InCall(c) => nsent[c] = 1
        /\ pc[c] = "idle" => nsent[c] = 0
        /\ (Returned(c) /\ resp[c].kind = "err") =>
               result[c].kind = "err" /\ ~decoded[c]

\* a call that failed in the transport has returned after its one request
C3_Witness ==
    \E c \in Callers :
        /\ Returned(c)
        /\ resp[c].kind = "err"
        /\ result[c].kind = "err"
        /\ nsent[c] = 1

\* C4: create_service, update_service and delete_service return Ok with the
\* response as received for every status and body, undecoded, and fail only
\* when the transport failed; create_service sends {name, application_uuid}
\* and update_service sends the caller's body unchanged.
C4_MutatingReturnsRaw ==
    \A c \in Callers :
        /\ (Returned(c) /\ call[c].op \in MutatingOps) =>
               /\ ~decoded[c]
               /\ resp[c].kind = "response" =>
                      result[c] = [kind |-> "response", response |-> resp[c]]
               /\ resp[c].kind = "err" =>
                      result[c] = [kind |-> "err", error |-> "transport"]
        /\ (InCall(c) /\ call[c].op = "create_service") =>
               req[c].body = Some(JObj([name |-> JStr(call[c].args[1]),
                                        application_uuid |-> JStr(call[c].args[2])]))
        /\ (InCall(c) /\ call[c].op = "update_service") =>
               req[c].body = Some(call[c].args[2])
        /\ (InCall(c) /\ call[c].op = "delete_service") => req[c].body = NoBody

\* create_service answered 404 with an error body returned Ok(response)
C4_Witness ==
    \E c \in Callers :
        /\ Answered(c)
        /\ call[c].op = "create_service"
        /\ resp[c].status = 404
        /\ resp[c].body = ErrorBody
        /\ result[c].kind = "response"
        /\ ~is_success(result[c].response.status)

\* the fields of each record that may be left out, and their defaults
OptionalOf(type) ==
    CASE type = "ServiceData" -> {"params", "metadata", "master"}
      [] type = "InstanceData" -> {"params", "metadata"}
      [] type = "SapiManifests" ->
             {"name", "path", "template", "version", "master", "post_cmd"}
RequiredOf(type) ==
    CASE type = "ServiceData" -> {"uuid", "name", "application_uuid"}
      [] type = "InstanceData" -> {"uuid", "service_uuid"}
      [] type = "SapiManifests" -> {"uuid"}
DefaultOf(k) ==
    IF k \in {"params", "metadata"} THEN [some |-> FALSE]
    ELSE IF k = "master" THEN FALSE ELSE ""
\* what a well-typed field that was sent decodes to
SentValue(k, v) ==
    IF k \in {"params", "metadata"} THEN [some |-> TRUE, v |-> v]
    ELSE IF k = "master" THEN v.b ELSE v.s

DefaultManifest(uuid) ==
    [uuid |-> uuid, name |-> "", path |-> "", template |-> "", version |-> "",
     master |-> FALSE, post_cmd |-> ""]

\* C5: a ServiceData, InstanceData or SapiManifests payload that carries its
\* required fields and any subset of its optional ones (and possibly an
\* unknown field) decodes, every omitted optional field at its default and
\* every sent one at its value; the ZoneConfig payload whose one manifest is
\* {"uuid":"m1"} decodes to that manifest with every other field defaulted.
C5_OptionalFieldsDefault ==
    /\ (/\ output # Pending
        /\ target \in {"ServiceData", "InstanceData", "SapiManifests"}
        /\ payload \in Objects(FieldsOf(target))
        /\ RequiredOf(target) \subseteq DOMAIN payload.o) =>
            /\ output.ok
            /\ \A k \in OptionalOf(target) :
                   output.v[k] = IF k \in DOMAIN payload.o
                                 THEN SentValue(k, payload.o[k])
                                 ELSE DefaultOf(k)
    /\ (/\ output # Pending
        /\ target = "ZoneConfig"
        /\ payload = Minimal("ZoneConfig")) =>
            output = [ok |-> TRUE,
                      v |-> [manifests |-> <<DefaultManifest("m1")>>,
                             metadata |-> ZoneMetadata]]

\* a service payload with every optional field left out has been decoded
C5_Witness ==
    /\ target = "ServiceData"
    /\ payload.t = "obj"
    /\ DOMAIN payload.o = {"uuid", "name", "application_uuid"}
    /\ output # Pending
    /\ output.ok
    /\ output.v.params = [some |-> FALSE]
    /\ output.v.master = FALSE

AllManifestFields ==
    {"uuid", "name", "path", "template", "version", "master", "post_cmd"}

\* C6 as stated: a manifest entry decodes whichever of its seven fields,
\* uuid included, is left out, the omitted field at its default.
C6_AllSevenOptional ==
    (/\ output # Pending
     /\ target = "SapiManifests"
     /\ payload \in Objects(ManifestFields)) =>
        /\ output.ok
        /\ \A k \in AllManifestFields \ DOMAIN payload.o :
               output.v[k] = DefaultOf(k)

\* C6 amended: the six fields other than uuid may be left out and take their
\* defaults; uuid is required: a manifest entry without it fails to decode,
\* and so does the ZoneConfig that holds such an entry.
C6_UuidRequired ==
    /\ (/\ output # Pending
        /\ target = "SapiManifests"
        /\ payload \in Objects(ManifestFields)) =>
            /\ output.ok <=> "uuid" \in DOMAIN payload.o
            /\ output.ok =>
                   \A k \in (AllManifestFields \ {"uuid"}) \ DOMAIN payload.o :
                       output.v[k] = DefaultOf(k)
    /\ (/\ output # Pending
        /\ target = "ZoneConfig"
        /\ payload \in ZoneConfigs
        /\ {"manifests", "metadata"} \subseteq DOMAIN payload.o) =>
            (output.ok <=>
                \A i \in DOMAIN payload.o["manifests"].a :
                    "uuid" \in DOMAIN payload.o["manifests"].a[i].o)

\* a manifest entry that carries every field but uuid was refused
C6_Witness ==
    /\ target = "SapiManifests"
    /\ payload.t = "obj"
    /\ DOMAIN payload.o = AllManifestFields \ {"uuid"}
    /\ output = [ok |-> FALSE]

\* C7 as stated: a read returns a record only when the response had a
\* success status and its body decoded.
C7_RecordOnlyOnSuccessStatus ==
    \A c \in Callers :
        (Returned(c) /\ call[c].op \in ReadOps) =>
            /\ result[c].kind \in {"record", "err"}
            /\ result[c].kind = "record" =>
                   /\ resp[c].kind = "response"
                   /\ is_success(resp[c].status)
                   /\ resp[c].body = GoodBody(ResultType(call[c].op))

\* C7 amended: a read ends in a decoded record or in an error, never both
\* and never a stand-in record; it returns a record exactly when the
\* transport succeeded and the body decoded, whatever the status was.
C7_RecordIffBodyDecodes ==
    \A c \in Callers :
        (Returned(c) /\ call[c].op \in ReadOps) =>
            /\ result[c].kind \in {"record", "err"}
            /\ result[c].kind = "record" <=>
                   (/\ resp[c].kind = "response"
                    /\ resp[c].body = GoodBody(ResultType(call[c].op)))
            /\ result[c].kind = "record" =>
                   result[c].value =
                       from_json(ResultType(call[c].op), resp[c].body).v

\* a read answered 404 with a well-formed record returned that record
C7_Witness ==
    \E c \in Callers :
        /\ Answered(c)
        /\ call[c].op = "get_instance"
        /\ resp[c].status = 404
        /\ result[c].kind = "record"
        /\ result[c].value.uuid = "i1"

\* C8: a caller that is not in a call can start any operation whatever the
\* other callers are doing, a call blocked in send can always be answered,
\* and two calls of the same operation with the same arguments send the
\* same request whatever else is or was in flight.
C8_CallsIndependent ==
    /\ \A c \in Callers :
           pc[c] = "idle" =>
               /\ ENABLED list_instances(c)
               /\ ENABLED list_services(c)
               /\ ENABLED list_applications(c)
               /\ \A u \in Uuids :
                      /\ ENABLED get_zone_config(c, u)
                      /\ ENABLED get_instance(c, u)
                      /\ ENABLED list_service_instances(c, u)
                      /\ ENABLED get_service(c, u)
                      /\ ENABLED delete_service(c, u)
                      /\ ENABLED get_application(c, u)
                      /\ \A n \in Names : ENABLED create_service(c, n, u)
                      /\ \A b \in UpdateBodies : ENABLED update_service(c, u, b)
               /\ \A n \in Names :
                      /\ ENABLED get_service_by_name(c, n)
                      /\ ENABLED get_application_by_name(c, n)
    /\ \A c \in Callers :
           pc[c] = "sent" =>
               /\ ENABLED send_Err(c)
               /\ ENABLED (read_returns(c) \/ raw_returns(c))
    /\ \A c, d \in Callers :
           (InCall(c) /\ InCall(d) /\ call[c] = call[d]) => req[c] = req[d]

\* two callers are blocked in send at once, on different operations
C8_Witness ==
    \E c, d \in Callers :
        /\ c # d
        /\ pc[c] = "sent" /\ pc[d] = "sent"
        /\ call[c].op = "create_service"
        /\ call[d].op = "get_zone_config"

\* C9: in every state the base URL, the timeout and the transport handle
\* are the ones new built from its arguments.
C9_ConfigImmutable ==
    /\ sapi_base_url = new_args.sapi_base_url
    /\ request_timeout = new_args.request_timeout
    /\ client = [timeout |-> new_args.request_timeout]

\* one call has failed and another has returned a record, on one client
C9_Witness ==
    \E c, d \in Callers :
        /\ Returned(c) /\ result[c].kind = "err"
        /\ Returned(d) /\ result[d].kind = "record"
        /\ sapi_base_url = "http://sapi.example.com/"
        /\ request_timeout = 30

\* C10: every request carries exactly Content-Type: application/json and
\* Accept: application/json, and no Authorization header.
C10_FixedHeaders ==
    \A c \in Callers :
        InCall(c) =>
            /\ DOMAIN req[c].headers = {"Content-Type", "Accept"}
            /\ req[c].headers["Content-Type"] = "application/json"
            /\ req[c].headers["Accept"] = "application/json"
            /\ "Authorization" \notin DOMAIN req[c].headers

\* a POST and a DELETE are in flight with the two headers
C10_Witness ==
    \E c, d \in Callers :
        /\ pc[c] = "sent" /\ req[c].method = "POST"
        /\ pc[d] = "sent" /\ req[d].method = "DELETE"
        /\ req[c].headers = req[d].headers
        /\ DOMAIN req[c].headers = {"Content-Type", "Accept"}

====
